---- MODULE Spec2Model ----
(***************************************************************************)
(* A model of the L298N half-bridge driver of src/src/lib.rs.              *)
(*                                                                         *)
(* Spec     the driver: construction with new, calls of set executed one   *)
(*          statement at a time, and get_throttle.                         *)
(* FnSpec   the pure conversion duty_from_fullscale, applied to every      *)
(*          16-bit throttle for a set of native maximum duties.            *)
(*                                                                         *)
(* TLC's integers are 32-bit signed, the code's arithmetic is 32-bit       *)
(* unsigned: a u32 is kept as two 16-bit limbs [hi, lo] = hi * 2^16 + lo.  *)
(***************************************************************************)
EXTENDS Integers, Sequences, FiniteSets, TLC

VARIABLES
    max,        \* enable.max_duty_cycle(), fixed by the PWM capability
    dir1,       \* level of the dir1 pin
    dir2,       \* level of the dir2 pin
    duty,       \* duty last written to the enable PWM capability
    throttle,   \* the field self.throttle (NoValue: no driver built yet)
    pc,         \* "unbuilt", "new", "idle" or "set"
    cmd,        \* the command of the current (or last) call
    todo,       \* statements of the current call still to run
    writes,     \* hardware writes made by the current (or last) call
    pre,        \* dir1, dir2, duty, throttle when the call started
    got,        \* the last value returned by get_throttle
    hist,       \* history: the command of the call before the current one,
                \* and whether a Drive or a Stop(Brake) has completed
    bridges,    \* TwoSpec: the two driver instances, each with its own pins
    solo,       \* TwoSpec: each instance's own commands run with no other
    fmax,       \* FnSpec: the native maximum duty
    ft,         \* FnSpec: the throttle being converted
    fduty,      \* FnSpec: duty_from_fullscale(ft), once converted
    fpeak,      \* FnSpec: greatest duty of the throttles swept before ft
    fphase      \* FnSpec: "in" before the conversion, "out" after

driverVars == <<max, dir1, dir2, duty, throttle, pc, cmd, todo, writes, pre, got, hist>>
fnVars == <<fmax, ft, fduty, fpeak, fphase>>
twoVars == <<bridges, solo>>
vars == <<driverVars, fnVars, twoVars>>

----------------------------------------------------------------------------
(* Widths and literals of the source.                                      *)

U16_MAX == 65535
TwoPow16 == 65536
Bias == 32768
FullScale == 65535
NoValue == 0 - 1

(* Bounds of the model.                                                    *)
SmallMax == 2
SmallThrottle == 1

U16 == 0..U16_MAX

----------------------------------------------------------------------------
(* 32-bit unsigned arithmetic on limbs.                                    *)

\* The product with the casts to u32 left out: a 16-bit wrapping product.
mul_u16(a, b) ==
    [hi |-> 0, lo |-> (a * (b % 256) + ((a * (b \div 256)) % 256) * 256) % TwoPow16]

\* (a as u32) * (b as u32) for 16-bit a, b: wrapping u32 multiplication.
mul_u32(a, b) ==
    LET bh == b \div 256
        bl == b % 256
        ph == a * bh
        pl == a * bl
        lo_sum == (ph % 256) * 256 + (pl % TwoPow16)
        hi_sum == (ph \div 256) + (pl \div TwoPow16) + (lo_sum \div TwoPow16)
    IN  [hi |-> hi_sum % TwoPow16, lo |-> lo_sum % TwoPow16]

\* x + c for a u32 x and a 16-bit c: wrapping u32 addition.
add_u32(x, c) ==
    LET lo_sum == x.lo + c
    IN  [hi |-> (x.hi + (lo_sum \div TwoPow16)) % TwoPow16, lo |-> lo_sum % TwoPow16]

\* x / 0xFFFF for a u32 x: hi * 2^16 + lo = hi * 0xFFFF + (hi + lo).
div_u32(x) == x.hi + ((x.hi + x.lo) \div FullScale)

\* x % 0xFFFF for a u32 x.
rem_u32(x) == (x.hi + x.lo) % FullScale

\* v as u16: the narrowing cast keeps the low 16 bits.
as_u16(v) == v % TwoPow16

\* The conversion with the product computed in 16 bits (the widening casts
\* to u32 left out).
duty_from_fullscale_u16(max_duty_cycle, t) ==
    as_u16(((max_duty_cycle * (t % 256) + ((max_duty_cycle * (t \div 256)) % 256) * 256
             + Bias) % TwoPow16) \div FullScale)

\* The conversion as a shift by 16 bits in place of the division by 0xFFFF.
duty_from_fullscale_shift(max_duty_cycle, t) ==
    as_u16(add_u32(mul_u32(max_duty_cycle, t), Bias).hi)

\* The conversion with the bias one short of 0x8000.
duty_from_fullscale_7fff(max_duty_cycle, t) ==
    as_u16(div_u32(add_u32(mul_u32(max_duty_cycle, t), Bias - 1)))

\* The conversion with the bias 0xFFFF (rounding up).
duty_from_fullscale_ffff(max_duty_cycle, t) ==
    as_u16(div_u32(add_u32(mul_u32(max_duty_cycle, t), FullScale)))

\* ((max * throttle + 0x8000) / 0xFFFF) as u16
duty_from_fullscale(max_duty_cycle, t) ==
    as_u16(div_u32(add_u32(mul_u32(max_duty_cycle, t), Bias)))

----------------------------------------------------------------------------
(* The driver. A call is the sequence of its statements; each statement is *)
(* a write to a pin, a write to the PWM capability, or a store to the      *)
(* field throttle.                                                         *)

High == "high"
Low == "low"
Level == {High, Low}

Maxes == (0..SmallMax) \cup {1000, 4095, 32767, U16_MAX}
Throttles == (0..SmallThrottle) \cup {10000, 32768, 55000, U16_MAX}

Direction == {"Forward", "Reverse"}
StopMode == {"Brake", "Coast"}
Drive(d, t) == [kind |-> "Drive", direction |-> d, throttle |-> t]
Stop(m) == [kind |-> "Stop", mode |-> m]
Command == {Drive(d, t) : d \in Direction, t \in Throttles} \cup {Stop(m) : m \in StopMode}

SetDir1(v) == [op |-> "dir1", v |-> v]
SetDir2(v) == [op |-> "dir2", v |-> v]
StoreThrottle(t) == [op |-> "store", v |-> t]
SetDutyCycle(d) == [op |-> "duty", v |-> d]

\* set_throttle with the two statements in the other order.
set_throttle_duty_first(t) ==
    <<SetDutyCycle(duty_from_fullscale(max, t)), StoreThrottle(t)>>

\* set_throttle without the store to the field.
set_throttle_no_store(t) ==
    <<SetDutyCycle(duty_from_fullscale(max, t))>>

set_throttle(t) ==
    <<StoreThrottle(t), SetDutyCycle(duty_from_fullscale(max, t))>>

\* forward with the levels of reverse.
forward_swapped == <<SetDir1(Low), SetDir2(High)>>

forward == <<SetDir1(High), SetDir2(Low)>>

\* reverse as a flip of the direction the lines show.
reverse_toggle ==
    IF dir1 = High
    THEN <<SetDir1(Low), SetDir2(High)>>
    ELSE <<SetDir1(High), SetDir2(Low)>>

reverse == <<SetDir1(Low), SetDir2(High)>>

\* fast_motor_stop with the duty driven to zero.
fast_motor_stop_zero == <<SetDir1(High), SetDir2(High)>> \o set_throttle(0)

\* fast_motor_stop with the duty written before the direction lines.
fast_motor_stop_duty_first == set_throttle(U16_MAX) \o <<SetDir1(High), SetDir2(High)>>

\* fast_motor_stop with the other stop pattern of the truth table, both low.
fast_motor_stop_low == <<SetDir1(Low), SetDir2(Low)>> \o set_throttle(U16_MAX)

fast_motor_stop == <<SetDir1(High), SetDir2(High)>> \o set_throttle(U16_MAX)

\* free_running_motor_stop that also pulls both direction lines low.
free_running_motor_stop_low == <<SetDir1(Low), SetDir2(Low)>> \o set_throttle(0)

free_running_motor_stop == set_throttle(0)

\* new that leaves the duty of the PWM capability as it found it.
new_no_write == <<StoreThrottle(0)>>

new == <<StoreThrottle(0), SetDutyCycle(0)>>

set(c) ==
    IF c.kind = "Drive"
    THEN (IF c.direction = "Forward" THEN forward ELSE reverse) \o set_throttle(c.throttle)
    ELSE IF c.mode = "Brake" THEN fast_motor_stop ELSE free_running_motor_stop

get_throttle == throttle

Snapshot == [dir1 |-> dir1, dir2 |-> dir2, duty |-> duty, throttle |-> throttle]

\* The state of the three capabilities handed to new.
DriverInit ==
    /\ max \in Maxes
    /\ dir1 \in Level
    /\ dir2 \in Level
    /\ duty \in {0, max}
    /\ throttle = NoValue
    /\ pc = "unbuilt"
    /\ cmd = [kind |-> "None"]
    /\ todo = <<>>
    /\ writes = <<>>
    /\ pre = [dir1 |-> dir1, dir2 |-> dir2, duty |-> duty, throttle |-> NoValue]
    /\ got = NoValue
    /\ hist = [prev |-> [kind |-> "None"], driven |-> FALSE]

FnIdle ==
    /\ fmax = 0
    /\ ft = 0
    /\ fduty = NoValue
    /\ fpeak = 0
    /\ fphase = "in"

TwoIdle ==
    /\ bridges = <<>>
    /\ solo = <<>>

Init == DriverInit /\ FnIdle /\ TwoIdle

Begin(c, plan) ==
    /\ cmd' = c
    /\ todo' = plan
    /\ writes' = <<>>
    /\ pre' = Snapshot
    /\ pc' = "run"
    /\ hist' = [hist EXCEPT !.prev = cmd]
    /\ UNCHANGED <<max, dir1, dir2, duty, throttle, got>>

CallNew ==
    /\ pc = "unbuilt"
    /\ Begin([kind |-> "New"], new)

CallSet ==
    /\ pc = "idle"
    /\ \E c \in Command : Begin(c, set(c))

\* The commands that write both direction lines.
BridgeDriving == {c \in Command : c.kind = "Drive"} \cup {Stop("Brake")}

\* The statement run leaves the call when it was the last one.
Advance ==
    /\ todo' = Tail(todo)
    /\ pc' = IF Len(todo) = 1 THEN "idle" ELSE "run"
    /\ hist' = IF Len(todo) = 1 /\ cmd \in BridgeDriving
               THEN [hist EXCEPT !.driven = TRUE]
               ELSE hist
    /\ UNCHANGED <<max, cmd, pre, got>>

Running(op) == pc = "run" /\ todo # <<>> /\ Head(todo).op = op

WriteDir1 ==
    /\ Running("dir1")
    /\ dir1' = Head(todo).v
    /\ writes' = Append(writes, Head(todo))
    /\ Advance
    /\ UNCHANGED <<dir2, duty, throttle>>

WriteDir2 ==
    /\ Running("dir2")
    /\ dir2' = Head(todo).v
    /\ writes' = Append(writes, Head(todo))
    /\ Advance
    /\ UNCHANGED <<dir1, duty, throttle>>

WriteDuty ==
    /\ Running("duty")
    /\ duty' = Head(todo).v
    /\ writes' = Append(writes, Head(todo))
    /\ Advance
    /\ UNCHANGED <<dir1, dir2, throttle>>

Store ==
    /\ Running("store")
    /\ throttle' = Head(todo).v
    /\ Advance
    /\ UNCHANGED <<dir1, dir2, duty, writes>>

\* get_throttle that takes the value out of the field.
GetThrottle_take ==
    /\ pc = "idle"
    /\ got' = throttle
    /\ throttle' = 0
    /\ UNCHANGED <<max, dir1, dir2, duty, pc, cmd, todo, writes, pre, hist>>

GetThrottle ==
    /\ pc = "idle"
    /\ got' = get_throttle
    /\ UNCHANGED <<max, dir1, dir2, duty, throttle, pc, cmd, todo, writes, pre, hist>>

Next ==
    \/ CallNew /\ UNCHANGED <<fnVars, twoVars>>
    \/ CallSet /\ UNCHANGED <<fnVars, twoVars>>
    \/ WriteDir1 /\ UNCHANGED <<fnVars, twoVars>>
    \/ WriteDir2 /\ UNCHANGED <<fnVars, twoVars>>
    \/ Store /\ UNCHANGED <<fnVars, twoVars>>
    \/ WriteDuty /\ UNCHANGED <<fnVars, twoVars>>
    \/ GetThrottle /\ UNCHANGED <<fnVars, twoVars>>

Spec == Init /\ [][Next]_vars

----------------------------------------------------------------------------
(* The conversion alone: every 16-bit throttle is an initial state, the    *)
(* conversion is applied to it, and the sweep moves on to the next         *)
(* throttle keeping the greatest duty seen so far.                         *)

FnMaxes == Maxes

DriverIdle ==
    /\ max = 0
    /\ dir1 = Low
    /\ dir2 = Low
    /\ duty = 0
    /\ throttle = NoValue
    /\ pc = "unbuilt"
    /\ cmd = [kind |-> "None"]
    /\ todo = <<>>
    /\ writes = <<>>
    /\ pre = [dir1 |-> Low, dir2 |-> Low, duty |-> 0, throttle |-> NoValue]
    /\ got = NoValue
    /\ hist = [prev |-> [kind |-> "None"], driven |-> FALSE]

FnInit ==
    /\ DriverIdle
    /\ TwoIdle
    /\ fmax \in FnMaxes
    /\ ft \in U16
    /\ fduty = NoValue
    /\ fpeak = 0
    /\ fphase = "in"

Convert ==
    /\ fphase = "in"
    /\ fduty' = duty_from_fullscale(fmax, ft)
    /\ fphase' = "out"
    /\ UNCHANGED <<fmax, ft, fpeak>>

Sweep ==
    /\ fphase = "out"
    /\ ft < U16_MAX
    /\ ft' = ft + 1
    /\ fpeak' = IF fduty > fpeak THEN fduty ELSE fpeak
    /\ fduty' = NoValue
    /\ fphase' = "in"
    /\ UNCHANGED fmax

FnNext ==
    \/ Convert /\ UNCHANGED <<driverVars, twoVars>>
    \/ Sweep /\ UNCHANGED <<driverVars, twoVars>>

FnSpec == FnInit /\ [][FnNext]_vars

----------------------------------------------------------------------------
(* The claims about the driver, checked under Spec.                        *)

Completed == pc = "idle"
DirWrites == {i \in 1..Len(writes) : writes[i].op \in {"dir1", "dir2"}}
DutyWrites == {i \in 1..Len(writes) : writes[i].op = "duty"}

\* C1: once set(Drive{direction, t}) has completed, from whatever state it
\* started, Forward leaves dir1 high and dir2 low, Reverse leaves dir1 low and
\* dir2 high, get_throttle() returns t and the PWM duty is
\* duty_from_fullscale(t).
C1_DriveOutcome ==
    (Completed /\ cmd.kind = "Drive") =>
        /\ cmd.direction = "Forward" => (dir1 = High /\ dir2 = Low)
        /\ cmd.direction = "Reverse" => (dir1 = Low /\ dir2 = High)
        /\ get_throttle = cmd.throttle
        /\ duty = duty_from_fullscale(max, cmd.throttle)

\* A Forward drive at half throttle on a 1000-step PWM, completed from the
\* braked state (both lines high, throttle 65535): the duty is 500.
C1_Witness ==
    /\ Completed
    /\ cmd = Drive("Forward", 32768)
    /\ max = 1000
    /\ pre.dir1 = High /\ pre.dir2 = High /\ pre.throttle = U16_MAX
    /\ dir1 = High /\ dir2 = Low /\ duty = 500 /\ throttle = 32768

\* C2: once set(Stop(Brake)) has completed, from whatever state it started,
\* dir1 and dir2 are high, the PWM duty is the maximum duty of the peripheral
\* and get_throttle() returns 65535, not the throttle of the last Drive.
C2_BrakeOutcome ==
    (Completed /\ cmd = Stop("Brake")) =>
        /\ dir1 = High
        /\ dir2 = High
        /\ duty = max
        /\ get_throttle = U16_MAX

\* Brake completed right after a Drive at throttle 10000.
C2_Witness ==
    /\ Completed
    /\ cmd = Stop("Brake")
    /\ pre.throttle = 10000 /\ pre.dir2 = Low
    /\ max = 4095 /\ duty = 4095 /\ throttle = U16_MAX

\* C3: once set(Stop(Coast)) has completed the PWM duty is 0, get_throttle()
\* returns 0, and the call wrote neither direction line: both hold the level
\* they had when the call started.
C3_CoastOutcome ==
    (Completed /\ cmd = Stop("Coast")) =>
        /\ duty = 0
        /\ get_throttle = 0
        /\ dir1 = pre.dir1
        /\ dir2 = pre.dir2
        /\ DirWrites = {}

\* Coast completed on a motor that was running in reverse.
C3_Witness ==
    /\ Completed
    /\ cmd = Stop("Coast")
    /\ pre.throttle = 55000 /\ pre.duty > 0
    /\ dir1 = Low /\ dir2 = High /\ duty = 0 /\ throttle = 0

\* C4: right after new, before any set, the PWM duty is 0, get_throttle()
\* returns 0 and the direction lines have not been written: the state is the
\* one Stop(Coast) leaves on the same pins.
C4_AfterNew ==
    (Completed /\ cmd.kind = "New") =>
        /\ duty = 0
        /\ get_throttle = 0
        /\ dir1 = pre.dir1
        /\ dir2 = pre.dir2
        /\ DirWrites = {}

\* new completed on a PWM capability that was at a non-zero duty.
C4_Witness ==
    /\ Completed
    /\ cmd.kind = "New"
    /\ pre.duty > 0 /\ pre.throttle = NoValue
    /\ duty = 0 /\ throttle = 0
    /\ dir1 = High /\ dir2 = Low

\* C5: after new and after every completed set, in any sequence, the duty
\* written to the PWM capability is duty_from_fullscale of the stored
\* throttle.
C5_DutyOfStoredThrottle ==
    Completed => duty = duty_from_fullscale(max, get_throttle)

\* A Drive completed after a Brake: stored throttle and duty both moved.
C5_Witness ==
    /\ Completed
    /\ cmd.kind = "Drive"
    /\ pre.throttle = U16_MAX /\ pre.duty = max
    /\ throttle = 55000 /\ duty # pre.duty /\ duty > 0

----------------------------------------------------------------------------
(* The claims about the conversion, checked under FnSpec.                  *)

\* max * t = Quot * 65535 + Rem, exactly.
Quot(m, t) == div_u32(mul_u32(m, t))
Rem(m, t) == rem_u32(mul_u32(m, t))

\* floor((2 * max * t + 65535) / 131070): with max * t = q * 65535 + r and
\* r < 65535 this is q + floor((2 * r + 65535) / 131070).
RoundHalfUp(m, t) == Quot(m, t) + ((2 * Rem(m, t) + FullScale) \div (2 * FullScale))

Converted == fphase = "out"

\* C6: for every maximum duty max > 0, duty_from_fullscale(0) = 0 and
\* duty_from_fullscale(65535) = max.
C6_EndPoints ==
    (Converted /\ fmax > 0) =>
        /\ ft = 0 => fduty = 0
        /\ ft = U16_MAX => fduty = fmax

\* Full throttle converted on a 12-bit PWM.
C6_Witness ==
    /\ Converted
    /\ fmax = 4095
    /\ ft = U16_MAX
    /\ fduty = 4095

\* C7: for every max > 0 and all throttles t1 <= t2, duty_from_fullscale(t1)
\* <= duty_from_fullscale(t2): the duty of a throttle is at least the greatest
\* duty of the throttles swept before it, from any starting throttle.
C7_Monotonic ==
    (Converted /\ fmax > 0) => fduty >= fpeak

\* A throttle whose duty is strictly above a positive duty swept before it.
C7_Witness ==
    /\ Converted
    /\ fmax > 0
    /\ fpeak > 0
    /\ fduty > fpeak

\* C8: for every max and every t, duty_from_fullscale(t) is within 1 of
\* max * t / 65535: |duty * 65535 - max * t| <= 65535. With max * t =
\* q * 65535 + r the difference is (duty - q) * 65535 - r.
C8_WithinOne ==
    Converted =>
        LET d == fduty - Quot(fmax, ft)
            e == d * FullScale - Rem(fmax, ft)
        IN  /\ d \in (0 - 2)..2
            /\ e <= FullScale
            /\ 0 - e <= FullScale

\* A conversion that is not exact and was rounded up.
C8_Witness ==
    /\ Converted
    /\ Rem(fmax, ft) > 0
    /\ fduty = Quot(fmax, ft) + 1
    /\ fmax = 1000

\* C9, as claimed: duty_from_fullscale(t) is max * t / 65535 rounded half up,
\* floor((2 * max * t + 65535) / 131070), for every max and t.
C9_RoundHalfUp ==
    Converted => fduty = RoundHalfUp(fmax, ft)

\* C9, amended: duty_from_fullscale(t) = floor((max * t + 32768) / 65535) is
\* max * t / 65535 rounded half up, except where max * t mod 65535 = 32767
\* (a fraction just under one half): there it is rounded up, one above.
C9_RoundHalfUpButOne ==
    Converted =>
        fduty = RoundHalfUp(fmax, ft) + (IF Rem(fmax, ft) = Bias - 1 THEN 1 ELSE 0)

\* max = 32767, t = 1: 32767 / 65535 is below one half and converts to 1.
C9_Witness ==
    /\ Converted
    /\ Rem(fmax, ft) = Bias - 1
    /\ fmax = 32767
    /\ ft = 1
    /\ fduty = 1

----------------------------------------------------------------------------
(* Further claims about the driver, checked under Spec.                    *)

Observable == <<dir1, dir2, duty, throttle>>
BothLow == dir1 = Low /\ dir2 = Low
Pattern(c) ==
    IF c.kind = "Stop" THEN <<High, High>>
    ELSE IF c.direction = "Forward" THEN <<High, Low>> ELSE <<Low, High>>

\* C12: get_throttle() is a pure accessor. A step from a completed call to a
\* completed call (a call of get_throttle) leaves dir1, dir2, the PWM duty and
\* the stored throttle as they are and returns the stored throttle; these
\* four change only in a step of a running new or set.
C12_GetThrottlePure ==
    [][ /\ (pc = "idle" /\ pc' = "idle") =>
              (Observable' = Observable /\ got' = throttle)
        /\ (Observable' # Observable) =>
              (pc = "run" /\ (cmd.kind = "New" \/ cmd \in Command)) ]_vars

\* get_throttle() has returned the throttle of a completed Reverse drive.
C12_Witness ==
    /\ Completed
    /\ cmd = Drive("Reverse", 10000)
    /\ got = 10000
    /\ throttle = 10000
    /\ dir1 = Low /\ dir2 = High

\* C14: within one set call the writes are made in a fixed order. Drive and
\* Stop(Brake) write dir1, then dir2, then the PWM duty; Stop(Coast) writes
\* only the PWM duty. When the duty write is due, and after it, the direction
\* lines show the commanded pattern.
C14_WriteOrder ==
    cmd \in Command =>
        LET n == Len(writes)
            order == IF cmd \in BridgeDriving THEN <<"dir1", "dir2", "duty">> ELSE <<"duty">>
            dutyDue == pc = "run" /\ todo # <<>> /\ Head(todo).op = "duty"
        IN  /\ n <= Len(order)
            /\ \A i \in 1..n : writes[i].op = order[i]
            /\ Completed => n = Len(order)
            /\ (cmd \in BridgeDriving /\ (dutyDue \/ DutyWrites # {})) =>
                   <<dir1, dir2>> = Pattern(cmd)

\* Brake on lines that were both low: the duty write is due and both lines
\* are already high.
C14_Witness ==
    /\ cmd = Stop("Brake")
    /\ pc = "run"
    /\ Head(todo).op = "duty"
    /\ pre.dir1 = Low /\ pre.dir2 = Low
    /\ writes = <<SetDir1(High), SetDir2(High)>>
    /\ dir1 = High /\ dir2 = High

\* C16: in every state reached by new followed by any sequence of set, every
\* duty written to the PWM capability is at most max_duty_cycle(), for every
\* throttle and every max, 0 included.
C16_DutyWithinMax ==
    /\ \A i \in DutyWrites : writes[i].v <= max
    /\ duty <= max

\* Full throttle on a PWM capability whose maximum duty is 0.
C16_Witness ==
    /\ Completed
    /\ cmd = Drive("Forward", U16_MAX)
    /\ max = 0
    /\ writes[3] = SetDutyCycle(0)
    /\ duty = 0

\* C17: set is idempotent. When set(c) completes and the call before it was
\* set(c) too, dir1, dir2, the PWM duty and the stored throttle are what the
\* first of the two calls left.
C17_SetIdempotent ==
    (Completed /\ cmd \in Command /\ hist.prev = cmd) => Snapshot = pre

\* The same Reverse drive completed twice in a row.
C17_Witness ==
    /\ Completed
    /\ cmd = Drive("Reverse", 55000)
    /\ hist.prev = cmd
    /\ pre.throttle = 55000
    /\ dir1 = Low /\ dir2 = High /\ duty > 0

\* C18: once a Drive or a Stop(Brake) has completed, the direction lines are
\* never both low at the end of a call. Both low is seen only while no Drive
\* or Brake has completed and dir2 is still unwritten, or inside a Reverse
\* drive that started on the Forward pattern, between its two pin writes.
C18_NeverBothLow ==
    /\ (Completed /\ hist.driven) => ~BothLow
    /\ BothLow =>
          \/ ~hist.driven /\ \A i \in 1..Len(writes) : writes[i].op # "dir2"
          \/ /\ pc = "run"
             /\ cmd.kind = "Drive"
             /\ cmd.direction = "Reverse"
             /\ pre.dir1 = High /\ pre.dir2 = Low
             /\ writes = <<SetDir1(Low)>>

\* Coast completed after a Brake that followed a Drive: the lines stay high.
C18_Witness ==
    /\ Completed
    /\ hist.driven
    /\ cmd = Stop("Coast")
    /\ hist.prev = Stop("Brake")
    /\ dir1 = High /\ dir2 = High
    /\ duty = 0

\* Reachable: both lines low in the middle of a Forward-to-Reverse change.
C18_MidChange ==
    /\ hist.driven
    /\ BothLow
    /\ pc = "run"

----------------------------------------------------------------------------
(* A further claim about the conversion, checked under FnSpec.             *)

\* a * b and x + c on limbs with no wrap: hi is not reduced modulo 2^16, so
\* the value is below 2^32 exactly when hi < 2^16.
WideMul(a, b) ==
    LET ph == a * (b \div 256)
        pl == a * (b % 256)
        lo_sum == (ph % 256) * 256 + (pl % TwoPow16)
    IN  [hi |-> (ph \div 256) + (pl \div TwoPow16) + (lo_sum \div TwoPow16),
         lo |-> lo_sum % TwoPow16]
WideAdd(x, c) ==
    [hi |-> x.hi + ((x.lo + c) \div TwoPow16), lo |-> (x.lo + c) % TwoPow16]

\* C15: for every 16-bit max and throttle t, max * t + 32768 is below 2^32
\* and its quotient by 65535 is at most 65535: the duty the code returns is
\* the quotient computed without any wrap or truncation.
C15_NoOverflow ==
    Converted =>
        LET x == WideAdd(WideMul(fmax, ft), Bias)
            q == x.hi + ((x.hi + x.lo) \div FullScale)
        IN  /\ x.hi < TwoPow16
            /\ q <= U16_MAX
            /\ fduty = q

\* The greatest case: max = 65535 and t = 65535.
C15_Witness ==
    /\ Converted
    /\ fmax = U16_MAX
    /\ ft = U16_MAX
    /\ fduty = U16_MAX

----------------------------------------------------------------------------
(* Two driver instances, as the two motors of examples/stm32f4: each owns  *)
(* its two pins, its PWM channel and its field throttle. Their statements  *)
(* interleave in every order. Both PWM channels have the resolution max.   *)

Inst == {"left", "right"}
TwoThrottles == {0, 55000, U16_MAX}
TwoCommand == {c \in Command : c.kind = "Drive" => c.throttle \in TwoThrottles}

Visible(b) == [dir1 |-> b.dir1, dir2 |-> b.dir2, duty |-> b.duty, throttle |-> b.throttle]

\* One statement run on a state of pins, duty and throttle.
Apply(s, st) ==
    [s EXCEPT !.dir1 = IF st.op = "dir1" THEN st.v ELSE @,
              !.dir2 = IF st.op = "dir2" THEN st.v ELSE @,
              !.duty = IF st.op = "duty" THEN st.v ELSE @,
              !.throttle = IF st.op = "store" THEN st.v ELSE @]

\* The next statement of an instance's current call, run on that instance.
Exec(b) == [Apply(b, Head(b.todo)) EXCEPT !.todo = Tail(b.todo)]

\* A whole call, run with nothing in between.
RECURSIVE RunAll(_, _)
RunAll(s, plan) ==
    IF plan = <<>> THEN s ELSE RunAll(Apply(s, Head(plan)), Tail(plan))

TwoInit ==
    /\ max \in Maxes
    /\ dir1 = Low
    /\ dir2 = Low
    /\ duty = 0
    /\ throttle = NoValue
    /\ pc = "unbuilt"
    /\ cmd = [kind |-> "None"]
    /\ todo = <<>>
    /\ writes = <<>>
    /\ pre = [dir1 |-> Low, dir2 |-> Low, duty |-> 0, throttle |-> NoValue]
    /\ got = NoValue
    /\ hist = [prev |-> [kind |-> "None"], driven |-> FALSE]
    /\ FnIdle
    /\ \E l1, l2 \in Level :
          /\ bridges = [i \in Inst |->
                [dir1 |-> IF i = "left" THEN l1 ELSE l2,
                 dir2 |-> IF i = "left" THEN l2 ELSE l1,
                 duty |-> IF i = "left" THEN max ELSE 0,
                 throttle |-> NoValue, todo |-> <<>>, built |-> FALSE]]
          /\ solo = [i \in Inst |-> Visible(bridges[i])]

TwoBegin(i, plan) ==
    /\ bridges[i].todo = <<>>
    /\ bridges' = [bridges EXCEPT ![i].todo = plan, ![i].built = TRUE]
    /\ solo' = [solo EXCEPT ![i] = RunAll(solo[i], plan)]

TwoCallNew(i) ==
    /\ ~bridges[i].built
    /\ TwoBegin(i, new)

TwoCallSet(i) ==
    /\ bridges[i].built
    /\ \E c \in TwoCommand : TwoBegin(i, set(c))

\* A statement of one instance that also lands on the PWM channel of the
\* other: the two drivers built on one enable capability.
TwoStep_shared_enable(i) ==
    /\ bridges[i].todo # <<>>
    /\ bridges' = [j \in Inst |->
          IF j = i THEN Exec(bridges[i])
          ELSE [bridges[j] EXCEPT !.duty = Exec(bridges[i]).duty]]
    /\ UNCHANGED solo

TwoStep(i) ==
    /\ bridges[i].todo # <<>>
    /\ bridges' = [bridges EXCEPT ![i] = Exec(bridges[i])]
    /\ UNCHANGED solo

TwoNext ==
    \/ \E i \in Inst : TwoCallNew(i) /\ UNCHANGED <<driverVars, fnVars>>
    \/ \E i \in Inst : TwoCallSet(i) /\ UNCHANGED <<driverVars, fnVars>>
    \/ \E i \in Inst : TwoStep(i) /\ UNCHANGED <<driverVars, fnVars>>

TwoSpec == TwoInit /\ [][TwoNext]_vars

====
